---------------------------- MODULE Spec2Model ----------------------------
(***************************************************************************)
(* A model of cxx::stack<K, V> (src/stack.h, the revision of lines         *)
(* 249-715): a copy-on-write handle (stack) over a reference-counted       *)
(* storage block (stack_data) that keeps a global list of slots and a      *)
(* per-key bucket of values, cross-referenced by stable iterators.          *)
(*                                                                         *)
(* Heap addresses (storage blocks, list nodes, buckets) carry no meaning   *)
(* of their own, so every action stores its result up to a renaming of     *)
(* addresses (Canon): two states that differ only in addresses are one.    *)
(***************************************************************************)
EXTENDS Integers, Sequences, FiniteSets, TLC

\* ---------------------------------------------------------------- bounds
\* Most objects alive at once: the list nodes (slots) of all storage blocks,
\* and the reference the caller keeps.
MaxNodes == 3
\* The number of entries of the stack the loop that pops while it iterates
\* runs on.
MaxLoop == 4

\* The stack objects: two in the calls of Spec, a third in those of Spec3.
Handles == {"a", "b", "c"}
Two == {"a", "b"}
\* The order in which handles are scanned when addresses are renamed.
HOrder == <<"a", "b", "c">>
\* Keys that are pushed, and one more key that no push ever uses.
PushKeys == {1, 2}
Keys == {1, 2, 3}

\* The keys a key_map can hold: the type K of the keys.
K == {1, 2, 3, 4}
Values == {1, 2}

\* data == nullptr
Null == 0

VARIABLES
    alive,          \* alive[h]: handle h is a constructed stack object
    data,           \* data[h]: stack::data, an address into heap, or Null
    is_unsharable,  \* is_unsharable[h]: stack::is_unsharable
    heap,           \* heap[p]: the stack_data at address p
    ref,            \* the reference a mutable front handed out, if kept
    net,            \* net[h]: successful pushes minus successful pops on h
    live,           \* live[h][k]: the same, for the entries of key k
    hist            \* hist[h]: the entries pushed and not removed, in push order

vars == <<alive, data, is_unsharable, heap, ref, net, live, hist>>

\* ------------------------------------------------------------ stack_data
\* A slot of stack_list: a list node (id: its address, the value of every
\* iterator to it) holding a weak_ptr to a value_data_t (wp, 0: empty).
\* A bucket (value_data_t): list of element_t [value, it], it: an iterator
\* to a slot; and it: the key of the map entry its map iterator points to.
\* key_map[k]: the address of k's bucket, 0 when k has no entry.
\* vd: the value_data_t objects alive, by address.

EmptyFun == [x \in {} |-> 0]

NewStackData == [stack_list |-> <<>>, key_map |-> [k \in K |-> 0], vd |-> EmptyFun]

sd_size(s) == Len(s.stack_list)

SlotIds(s) == {s.stack_list[i].id : i \in 1..Len(s.stack_list)}

\* The address a new list node gets: any address not in use.
FreshSlot(s) == CHOOSE n \in 1..(Len(s.stack_list) + 1) : n \notin SlotIds(s)

FreshBucket(s) == CHOOSE n \in 1..(Cardinality(DOMAIN s.vd) + 1) : n \notin DOMAIN s.vd

\* weak_ptr::lock(): the bucket's address, 0 when the weak_ptr is empty or expired.
Lock(s, wp) == IF wp \in DOMAIN s.vd THEN wp ELSE 0

ButLast(q) == SubSeq(q, 1, Len(q) - 1)

\* An erase that removes the last node of the list, whatever the iterator.
RemoveAt_last(q, i) == SubSeq(q, 1, Len(q) - 1)

RemoveAt(q, i) == SubSeq(q, 1, i - 1) \o SubSeq(q, i + 1, Len(q))

Without(f, x) == [y \in DOMAIN f \ {x} |-> f[y]]

\* The position in stack_list of the node an iterator points to, 0 if none.
SlotPos(s, it) ==
    IF \E i \in 1..Len(s.stack_list) : s.stack_list[i].id = it
    THEN CHOOSE i \in 1..Len(s.stack_list) : s.stack_list[i].id = it
    ELSE 0


\* ------------------------------------------------------ stack_data::push
\* The steps of push that can throw: the list node of the new slot, the
\* copy of the value into new_el, the key comparisons of key_map.find, the
\* make_shared of a new bucket, the list node of the bucket's entry, the
\* map node of the key's entry.
PushFails == {"none", "slot", "element", "find", "bucket", "entry", "insert"}

\* A catch block that rethrows without the pop_back.
push_no_rollback(s) == s

\* catch (...) { stack_list.pop_back(); throw; }
push_rollback(s) == [s EXCEPT !.stack_list = ButLast(@)]

\* A try block that puts the element of a key that has a bucket at the
\* front of the bucket's list.
push_try_prepends(s, key, value, fail) ==
    LET n == Len(s.stack_list)
        stack_it == s.stack_list[n].id
        new_el == [value |-> value, it |-> stack_it]
        it == s.key_map[key]
    IN  IF fail \in {"element", "find"}
        THEN [err |-> "exception", sd |-> s]
        ELSE IF it = 0
        THEN IF fail \in {"bucket", "entry", "insert"}
             THEN [err |-> "exception", sd |-> s]
             ELSE LET ptr == FreshBucket(s)
                  IN  [err |-> "none",
                       sd |-> [stack_list |-> [s.stack_list EXCEPT ![n].wp = ptr],
                               key_map |-> [s.key_map EXCEPT ![key] = ptr],
                               vd |-> (ptr :> [list |-> <<new_el>>, it |-> key]) @@ s.vd]]
        ELSE IF fail = "entry"
             THEN [err |-> "exception", sd |-> s]
             ELSE [err |-> "none",
                   sd |-> [s EXCEPT !.stack_list[n].wp = it,
                                    !.vd[it].list = <<new_el>> \o @]]

\* The try block, after the empty slot stack_it was appended.
push_try(s, key, value, fail) ==
    LET n == Len(s.stack_list)
        stack_it == s.stack_list[n].id
        new_el == [value |-> value, it |-> stack_it]
        it == s.key_map[key]
    IN  IF fail \in {"element", "find"}
        THEN [err |-> "exception", sd |-> s]
        ELSE IF it = 0
        THEN IF fail \in {"bucket", "entry", "insert"}
             THEN [err |-> "exception", sd |-> s]
             ELSE LET ptr == FreshBucket(s)
                  IN  [err |-> "none",
                       sd |-> [stack_list |-> [s.stack_list EXCEPT ![n].wp = ptr],
                               key_map |-> [s.key_map EXCEPT ![key] = ptr],
                               vd |-> (ptr :> [list |-> <<new_el>>, it |-> key]) @@ s.vd]]
        ELSE IF fail = "entry"
             THEN [err |-> "exception", sd |-> s]
             ELSE [err |-> "none",
                   sd |-> [s EXCEPT !.stack_list[n].wp = it,
                                    !.vd[it].list = Append(@, new_el)]]

\* The catch block: what the try block left, or the rollback and the rethrow.
push_catch(r) ==
    IF r.err = "none" THEN r ELSE [err |-> r.err, sd |-> push_rollback(r.sd)]

sd_push(s, key, value, fail) ==
    IF fail = "slot"
    THEN [err |-> "exception", sd |-> s]
    ELSE push_catch(push_try([s EXCEPT !.stack_list =
                                  Append(@, [id |-> FreshSlot(s), wp |-> 0])],
                             key, value, fail))

\* ------------------------------------------------------- stack_data::pop
\* err names the throw statement a call ends in: "EmptyContainer" is the
\* std::invalid_argument thrown when size() == 0, "KeyNotFound" the one
\* thrown when key_map.find(k) == key_map.end(); they differ in their
\* message. "exception" is what an allocation or a copy throws.
\* An erase that leaves the key's entry in key_map.
EraseKey_keeps(s, b) == s

\* key_map.erase(key): the entry's shared_ptr is the bucket's only owner
\* besides the local one of the caller, which goes at the end of the call.
EraseKey(s, b) ==
    LET key == s.vd[b].it
    IN  [s EXCEPT !.key_map = [k \in K |-> IF k = key THEN 0 ELSE @[k]]]

\* The end of pop: a bucket no map entry owns is destroyed.
ReleaseBucket(s, b) ==
    IF \E k \in K : s.key_map[k] = b THEN s ELSE [s EXCEPT !.vd = Without(@, b)]

\* A pop that drops the bucket's entry and leaves its list node in stack_list.
sd_pop_keeps_slot(s) ==
    IF sd_size(s) = 0
    THEN [err |-> "EmptyContainer", sd |-> s]
    ELSE LET last_ == Lock(s, s.stack_list[Len(s.stack_list)].wp)
         IN  IF last_ = 0 \/ Len(s.vd[last_].list) = 0
             THEN [err |-> "undefined", sd |-> s]
             ELSE LET s1 == [s EXCEPT !.vd[last_].list = ButLast(@)]
                      s2 == IF Len(s1.vd[last_].list) = 0 THEN EraseKey(s1, last_) ELSE s1
                  IN  [err |-> "none", sd |-> ReleaseBucket(s2, last_)]

sd_pop(s) ==
    IF sd_size(s) = 0
    THEN [err |-> "EmptyContainer", sd |-> s]
    ELSE LET last_ == Lock(s, s.stack_list[Len(s.stack_list)].wp)
         IN  IF last_ = 0 \/ Len(s.vd[last_].list) = 0
             THEN [err |-> "undefined", sd |-> s]
             ELSE LET s1 == [s EXCEPT !.vd[last_].list = ButLast(@)]
                      s2 == IF Len(s1.vd[last_].list) = 0 THEN EraseKey(s1, last_) ELSE s1
                      s3 == [s2 EXCEPT !.stack_list = ButLast(@)]
                  IN  [err |-> "none", sd |-> ReleaseBucket(s3, last_)]

\* A pop(k) that looks the key up before it checks for emptiness.
sd_pop_key_lookup_first(s, k) ==
    IF s.key_map[k] = 0
    THEN [err |-> "KeyNotFound", sd |-> s]
    ELSE IF sd_size(s) = 0
    THEN [err |-> "EmptyContainer", sd |-> s]
    ELSE LET last_ == s.key_map[k]
             lst == s.vd[last_].list
         IN  IF Len(lst) = 0 \/ SlotPos(s, lst[Len(lst)].it) = 0
             THEN [err |-> "undefined", sd |-> s]
             ELSE LET to_del == lst[Len(lst)].it
                      s1 == [s EXCEPT !.vd[last_].list = ButLast(@)]
                      s2 == IF Len(s1.vd[last_].list) = 0 THEN EraseKey(s1, last_) ELSE s1
                      s3 == [s2 EXCEPT !.stack_list = RemoveAt(@, SlotPos(s, to_del))]
                  IN  [err |-> "none", sd |-> ReleaseBucket(s3, last_)]

\* A pop(k) that leaves the key's entry in key_map when its bucket empties.
sd_pop_key_keeps_entry(s, k) ==
    IF sd_size(s) = 0
    THEN [err |-> "EmptyContainer", sd |-> s]
    ELSE IF s.key_map[k] = 0
    THEN [err |-> "KeyNotFound", sd |-> s]
    ELSE LET last_ == s.key_map[k]
             lst == s.vd[last_].list
         IN  IF Len(lst) = 0 \/ SlotPos(s, lst[Len(lst)].it) = 0
             THEN [err |-> "undefined", sd |-> s]
             ELSE LET to_del == lst[Len(lst)].it
                      s1 == [s EXCEPT !.vd[last_].list = ButLast(@)]
                      s3 == [s1 EXCEPT !.stack_list = RemoveAt(@, SlotPos(s, to_del))]
                  IN  [err |-> "none", sd |-> ReleaseBucket(s3, last_)]

sd_pop_key(s, k) ==
    IF sd_size(s) = 0
    THEN [err |-> "EmptyContainer", sd |-> s]
    ELSE IF s.key_map[k] = 0
    THEN [err |-> "KeyNotFound", sd |-> s]
    ELSE LET last_ == s.key_map[k]
             lst == s.vd[last_].list
         IN  IF Len(lst) = 0 \/ SlotPos(s, lst[Len(lst)].it) = 0
             THEN [err |-> "undefined", sd |-> s]
             ELSE LET to_del == lst[Len(lst)].it
                      s1 == [s EXCEPT !.vd[last_].list = ButLast(@)]
                      s2 == IF Len(s1.vd[last_].list) = 0 THEN EraseKey(s1, last_) ELSE s1
                      s3 == [s2 EXCEPT !.stack_list = RemoveAt(@, SlotPos(s, to_del))]
                  IN  [err |-> "none", sd |-> ReleaseBucket(s3, last_)]

\* ----------------------------------------------------- stack_data::front
\* The pair returned: the key, the value, and el, the element the V& refers
\* to, named by the slot its iterator points to.
NoFront == [key |-> 0, value |-> 0, el |-> 0]

\* A front that reads the oldest entry of the top slot's bucket.
sd_front_oldest(s) ==
    IF sd_size(s) = 0
    THEN [err |-> "EmptyContainer", res |-> NoFront]
    ELSE LET last_ == Lock(s, s.stack_list[Len(s.stack_list)].wp)
         IN  IF last_ = 0 \/ Len(s.vd[last_].list) = 0
             THEN [err |-> "undefined", res |-> NoFront]
             ELSE LET lst == s.vd[last_].list
                  IN  [err |-> "none",
                       res |-> [key |-> s.vd[last_].it,
                                value |-> lst[1].value,
                                el |-> lst[1].it]]

sd_front(s) ==
    IF sd_size(s) = 0
    THEN [err |-> "EmptyContainer", res |-> NoFront]
    ELSE LET last_ == Lock(s, s.stack_list[Len(s.stack_list)].wp)
         IN  IF last_ = 0 \/ Len(s.vd[last_].list) = 0
             THEN [err |-> "undefined", res |-> NoFront]
             ELSE LET lst == s.vd[last_].list
                  IN  [err |-> "none",
                       res |-> [key |-> s.vd[last_].it,
                                value |-> lst[Len(lst)].value,
                                el |-> lst[Len(lst)].it]]

\* A front(k) that takes a key without an entry for a key without values.
sd_front_key_unchecked(s, k) ==
    IF sd_size(s) = 0
    THEN [err |-> "EmptyContainer", res |-> NoFront]
    ELSE IF s.key_map[k] = 0
    THEN [err |-> "none", res |-> NoFront]
    ELSE LET lst == s.vd[s.key_map[k]].list
         IN  IF Len(lst) = 0
             THEN [err |-> "undefined", res |-> NoFront]
             ELSE [err |-> "none",
                   res |-> [key |-> k, value |-> lst[Len(lst)].value, el |-> lst[Len(lst)].it]]

sd_front_key(s, k) ==
    IF sd_size(s) = 0
    THEN [err |-> "EmptyContainer", res |-> NoFront]
    ELSE IF s.key_map[k] = 0
    THEN [err |-> "KeyNotFound", res |-> NoFront]
    ELSE LET lst == s.vd[s.key_map[k]].list
         IN  IF Len(lst) = 0
             THEN [err |-> "undefined", res |-> NoFront]
             ELSE [err |-> "none",
                   res |-> [key |-> k, value |-> lst[Len(lst)].value, el |-> lst[Len(lst)].it]]

\* A count that answers with the size of the whole stack.
sd_count_all(s, key) ==
    IF s.key_map[key] = 0 THEN 0 ELSE sd_size(s)

\* stack::count, on the stack_data it reads.
sd_count(s, key) ==
    IF s.key_map[key] = 0 THEN 0 ELSE Len(s.vd[s.key_map[key]].list)

sd_clear(s) == NewStackData

\* ------------------------------------- stack_data::stack_data(const&)
\* The deep copy: one push per slot of other, the value taken from the
\* slot's bucket at the position next_value keeps for the bucket's key.
\* A copy loop that reads the first value of the slot's bucket every time.
RECURSIVE copy_loop_first(_, _, _, _)
copy_loop_first(other, i, next_value, acc) ==
    IF i > Len(other.stack_list) THEN [err |-> "none", sd |-> acc]
    ELSE LET b == Lock(other, other.stack_list[i].wp)
         IN  IF b = 0 THEN [err |-> "undefined", sd |-> acc]
             ELSE copy_loop_first(other, i + 1, next_value,
                      sd_push(acc, other.vd[b].it, other.vd[b].list[1].value, "none").sd)

RECURSIVE copy_loop(_, _, _, _)
copy_loop(other, i, next_value, acc) ==
    IF i > Len(other.stack_list) THEN [err |-> "none", sd |-> acc]
    ELSE LET b == Lock(other, other.stack_list[i].wp)
         IN  IF b = 0 THEN [err |-> "undefined", sd |-> acc]
             ELSE LET key == other.vd[b].it
                      pos == IF next_value[key] = 0 THEN 1 ELSE next_value[key]
                  IN  IF pos > Len(other.vd[b].list)
                      THEN [err |-> "undefined", sd |-> acc]
                      ELSE copy_loop(other, i + 1,
                                     [next_value EXCEPT ![key] = pos + 1],
                                     sd_push(acc, key, other.vd[b].list[pos].value, "none").sd)

\* fail: one of the copy's allocations or value copies throws; the
\* constructor then throws and the partly built object is destroyed.
sd_copy(other, fail) ==
    IF fail THEN [err |-> "exception", sd |-> NewStackData]
    ELSE copy_loop(other, 1, [k \in K |-> 0], NewStackData)


\* ----------------------------------------------------- address renaming
\* A stack_data with its list nodes named by their position in stack_list
\* and its buckets by their key; an iterator or weak_ptr whose target is
\* gone is named 0.
CanonSD(s) ==
    LET bmap(b) == IF b # 0 /\ \E k \in K : s.key_map[k] = b
                   THEN CHOOSE k \in K : s.key_map[k] = b
                   ELSE 0
        present == {k \in K : s.key_map[k] \in DOMAIN s.vd}
    IN  [stack_list |-> [i \in 1..Len(s.stack_list) |->
                            [id |-> i, wp |-> bmap(Lock(s, s.stack_list[i].wp))]],
         key_map |-> [k \in K |-> IF k \in present THEN k ELSE 0],
         vd |-> [k \in present |->
                    LET b == s.vd[s.key_map[k]]
                    IN  [list |-> [j \in 1..Len(b.list) |->
                                      [value |-> b.list[j].value,
                                       it |-> SlotPos(s, b.list[j].it)]],
                         it |-> b.it]]]

NoRef == [h |-> "", p |-> Null, el |-> 0]

\* The addresses the alive handles hold, in the order of HOrder.
RECURSIVE Referenced(_, _, _, _)
Referenced(al, d, i, acc) ==
    IF i > Len(HOrder) THEN acc
    ELSE LET p == d[HOrder[i]]
         IN  Referenced(al, d, i + 1,
                 IF al[HOrder[i]] /\ p # Null /\ \A j \in 1..Len(acc) : acc[j] # p
                 THEN Append(acc, p) ELSE acc)

PosIn(q, x) == IF \E i \in 1..Len(q) : q[i] = x THEN CHOOSE i \in 1..Len(q) : q[i] = x ELSE 0

\* A stack_data no shared_ptr owns is destroyed; a reference into a destroyed
\* stack_data or to a destroyed element is dropped: it can no longer be used.
Canon(al, d, hp, r) ==
    LET order == Referenced(al, d, 1, <<>>)
        np == PosIn(order, r.p)
        nel == IF np = 0 THEN 0 ELSE SlotPos(hp[r.p], r.el)
    IN  [data |-> [h \in Handles |-> IF al[h] THEN PosIn(order, d[h]) ELSE Null],
         heap |-> [i \in 1..Len(order) |-> CanonSD(hp[order[i]])],
         ref |-> IF nel = 0 THEN NoRef ELSE [h |-> r.h, p |-> np, el |-> nel]]

RECURSIVE SumLen(_, _)
SumLen(hp, i) == IF i > Len(hp) THEN 0 ELSE sd_size(hp[i]) + SumLen(hp, i + 1)

\* List nodes alive over all storage blocks.
Nodes(hp) == SumLen(hp, 1)


\* ------------------------------------------------------------- stack
\* std::shared_ptr::use_count: the stack objects that hold address p.
use_count(p) == Cardinality({h \in Handles : alive[h] /\ data[h] = p})

get_data(h) == heap[data[h]]

\* What a call leaves: the exception it threw (err), the members of every
\* stack and the heap; res is what front returns, a reference to an element
\* of the stack_data at address at.
Unchanged(e) ==
    [err |-> e, alive |-> alive, data |-> data, unsh |-> is_unsharable, heap |-> heap,
     res |-> NoFront, at |-> Null]

\* new_state_t {first, second}: first is an address into the heap hp.
Cloned(c, h, mark_unshared) ==
    IF c.err # "none"
    THEN [err |-> c.err, hp |-> heap, first |-> data[h], second |-> mark_unshared]
    ELSE [err |-> "none", hp |-> Append(heap, c.sd), first |-> Len(heap) + 1,
          second |-> mark_unshared]

\* A make_copy_if_needed that never copies.
make_copy_never(h, mark_unshared, fail) ==
    [err |-> "none", hp |-> heap, first |-> data[h], second |-> mark_unshared]

\* A make_copy_if_needed that copies a stack_data with one owner too.
make_copy_always(h, mark_unshared, fail) ==
    Cloned(sd_copy(get_data(h), fail), h, mark_unshared)

\* fail: the deep copy of a shared stack_data throws.
make_copy_if_needed(h, mark_unshared, fail) ==
    IF use_count(data[h]) > 1
    THEN Cloned(sd_copy(get_data(h), fail), h, mark_unshared)
    ELSE [err |-> "none", hp |-> heap, first |-> data[h], second |-> mark_unshared]

\* An assume_state that keeps a flag that is set.
assume_state_sticky(h, state, hp) ==
    [err |-> "none", alive |-> alive,
     data |-> [data EXCEPT ![h] = state.first],
     unsh |-> [is_unsharable EXCEPT ![h] = @ \/ state.second],
     heap |-> hp, res |-> NoFront, at |-> Null]

\* std::tie(data, is_unsharable) = state
assume_state(h, state, hp) ==
    [err |-> "none", alive |-> alive,
     data |-> [data EXCEPT ![h] = state.first],
     unsh |-> [is_unsharable EXCEPT ![h] = state.second],
     heap |-> hp, res |-> NoFront, at |-> Null]

\* An end of push and pop that assumes the state whether the call returned
\* or threw.
Assumed_always(h, new_state, r) ==
    [assume_state(h, new_state, [new_state.hp EXCEPT ![new_state.first] = r.sd])
        EXCEPT !.err = r.err]

\* The end of push and pop: r is what the stack_data call on
\* get_data(new_state) left. The state is assumed when the call returned;
\* when it threw, new_state is dropped, and a stack_data that was not cloned
\* stays as the call left it.
Assumed(h, new_state, r) ==
    IF r.err = "none"
    THEN assume_state(h, new_state, [new_state.hp EXCEPT ![new_state.first] = r.sd])
    ELSE [Unchanged(r.err) EXCEPT
            !.heap = IF new_state.first = data[h]
                     THEN [heap EXCEPT ![data[h]] = r.sd] ELSE heap]

push_on(h, new_state, key, value, fail) ==
    IF new_state.err # "none" THEN Unchanged(new_state.err)
    ELSE Assumed(h, new_state, sd_push(new_state.hp[new_state.first], key, value, fail))

\* fail: "clone" when the copy of a shared stack_data throws, else the step
\* of stack_data::push that throws, or "none".
stack_push(h, key, value, fail) ==
    push_on(h, make_copy_if_needed(h, FALSE, fail = "clone"), key, value, fail)

pop_on(h, new_state) ==
    IF new_state.err # "none" THEN Unchanged(new_state.err)
    ELSE Assumed(h, new_state, sd_pop(new_state.hp[new_state.first]))

stack_pop(h, fail) == pop_on(h, make_copy_if_needed(h, FALSE, fail = "clone"))

pop_key_on(h, new_state, k) ==
    IF new_state.err # "none" THEN Unchanged(new_state.err)
    ELSE Assumed(h, new_state, sd_pop_key(new_state.hp[new_state.first], k))

stack_pop_key(h, k, fail) ==
    pop_key_on(h, make_copy_if_needed(h, FALSE, fail = "clone"), k)

\* The mutable accessors assume the state, then call front on get_data(),
\* the stack_data at p.
Fronted(st, r, p) == [st EXCEPT !.err = r.err, !.res = r.res, !.at = p]

\* A front() that takes the reference from the stack_data the stack holds
\* before the state is assumed.
front_on_stale(h, new_state) ==
    IF new_state.err # "none" THEN Unchanged(new_state.err)
    ELSE Fronted(assume_state(h, new_state, new_state.hp),
                 sd_front(get_data(h)), data[h])

front_on(h, new_state) ==
    IF new_state.err # "none" THEN Unchanged(new_state.err)
    ELSE Fronted(assume_state(h, new_state, new_state.hp),
                 sd_front(new_state.hp[new_state.first]), new_state.first)

stack_front(h, fail) == front_on(h, make_copy_if_needed(h, TRUE, fail = "clone"))

front_key_on(h, new_state, k) ==
    IF new_state.err # "none" THEN Unchanged(new_state.err)
    ELSE Fronted(assume_state(h, new_state, new_state.hp),
                 sd_front_key(new_state.hp[new_state.first], k), new_state.first)

stack_front_key(h, k, fail) ==
    front_key_on(h, make_copy_if_needed(h, TRUE, fail = "clone"), k)

\* The const accessors and the queries.
stack_front_const(h) == sd_front(get_data(h))

stack_front_key_const(h, k) == sd_front_key(get_data(h), k)

stack_size(h) == sd_size(get_data(h))

stack_count(h, key) == sd_count(get_data(h), key)

\* A clear that takes a new stack_data whether the old one is shared or not.
stack_clear_allocates(h, fail) ==
    IF fail THEN Unchanged("exception")
    ELSE [Unchanged("none") EXCEPT
            !.heap = Append(heap, NewStackData),
            !.data[h] = Len(heap) + 1,
            !.unsh[h] = FALSE]

\* A clear that empties the stack_data in place, shared or not.
stack_clear_in_place(h, fail) ==
    [Unchanged("none") EXCEPT
        !.heap[data[h]] = sd_clear(get_data(h)),
        !.unsh[h] = FALSE]

\* fail: the make_shared of the new empty stack_data throws.
stack_clear(h, fail) ==
    IF use_count(data[h]) > 1
    THEN IF fail THEN Unchanged("exception")
         ELSE [Unchanged("none") EXCEPT
                 !.heap = Append(heap, NewStackData),
                 !.data[h] = Len(heap) + 1,
                 !.unsh[h] = FALSE]
    ELSE [Unchanged("none") EXCEPT
            !.heap[data[h]] = sd_clear(get_data(h)),
            !.unsh[h] = FALSE]

\* stack(const stack& other): the members of the stack under construction,
\* first an address into hp. c: the deep copy, made when other is unsharable.
CopiedState(c) ==
    IF c.err # "none"
    THEN [err |-> c.err, hp |-> heap, first |-> Null, second |-> FALSE]
    ELSE [err |-> "none", hp |-> Append(heap, c.sd), first |-> Len(heap) + 1,
          second |-> FALSE]

\* A copy constructor that makes a deep copy whatever the flag of other says.
copy_state_always_clones(other, fail) ==
    CopiedState(sd_copy(get_data(other), fail))

\* A copy constructor that shares whatever the flag of other says.
copy_state_shared(other, fail) ==
    [err |-> "none", hp |-> heap, first |-> data[other], second |-> FALSE]

copy_state(other, fail) ==
    IF is_unsharable[other]
    THEN CopiedState(sd_copy(get_data(other), fail))
    ELSE [err |-> "none", hp |-> heap, first |-> data[other], second |-> FALSE]

Constructed(h, st) ==
    IF st.err # "none" THEN Unchanged(st.err)
    ELSE [Unchanged("none") EXCEPT
            !.alive[h] = TRUE, !.data[h] = st.first, !.unsh[h] = st.second,
            !.heap = st.hp]

stack_copy(h, other, fail) == Constructed(h, copy_state(other, fail))

\* stack(): a new empty stack_data, not unsharable.
stack_new(h) ==
    [Unchanged("none") EXCEPT
        !.alive[h] = TRUE, !.heap = Append(heap, NewStackData),
        !.data[h] = Len(heap) + 1, !.unsh[h] = FALSE]

\* stack(stack&& other): other keeps its flag and holds nullptr.
stack_move(h, other) ==
    [Unchanged("none") EXCEPT
        !.alive[h] = TRUE, !.data[h] = data[other], !.unsh[h] = is_unsharable[other],
        !.data[other] = Null]

\* A swap that exchanges data and leaves each stack its flag.
swap_on_data_only(st, a, b) ==
    [st EXCEPT !.data[a] = st.data[b], !.data[b] = st.data[a]]

\* The private stack::swap, on the members of a and b as st has them.
swap_on(st, a, b) ==
    [st EXCEPT
        !.data[a] = st.data[b], !.data[b] = st.data[a],
        !.unsh[a] = st.unsh[b], !.unsh[b] = st.unsh[a]]

stack_swap(a, b) == swap_on(Unchanged("none"), a, b)

\* A call that returns value.
Returns(value) == [fault |-> FALSE, value |-> value]

\* What a call that dereferences the null pointer can do: the behaviour is
\* undefined, the call faults or returns whatever it reads.
NullDeref == {[fault |-> TRUE, value |-> 0]} \cup {Returns(n) : n \in 0..MaxNodes}

\* A call of size() or count(k): what it can do. On a stack that holds
\* nullptr (a moved-from stack) get_data() dereferences the null pointer.
size_call(h) == IF data[h] = Null THEN NullDeref ELSE {Returns(stack_size(h))}

count_call(h, key) ==
    IF data[h] = Null THEN NullDeref ELSE {Returns(stack_count(h, key))}

\* An assignment that swaps with whatever the copy left, also when the copy
\* threw.
Swapped_always(h, st) ==
    [Unchanged(st.err) EXCEPT
        !.data[h] = st.first, !.unsh[h] = st.second, !.heap = st.hp]

\* operator=(stack other) called with an lvalue: other is a copy of the
\* argument; after the swap it holds what h held, and is destroyed.
Swapped(h, st) ==
    IF st.err # "none" THEN Unchanged(st.err)
    ELSE [Unchanged("none") EXCEPT
            !.data[h] = st.first, !.unsh[h] = st.second, !.heap = st.hp]

stack_assign(h, arg, fail) == Swapped(h, copy_state(arg, fail))

\* operator=(stack other) called with an rvalue: other is move-constructed
\* from the argument, which is left holding nullptr.
stack_move_assign(h, arg) ==
    [Unchanged("none") EXCEPT
        !.data = [x \in Handles |->
                    IF x = h THEN data[arg] ELSE IF x = arg THEN Null ELSE data[x]],
        !.unsh[h] = is_unsharable[arg]]

\* ~stack(): the shared_ptr member releases its reference.
stack_destroy(h) ==
    [Unchanged("none") EXCEPT !.alive[h] = FALSE, !.data[h] = Null, !.unsh[h] = FALSE]

\* The caller assigns value through the reference r it kept.
WrittenSD(s, el, value) ==
    LET b == s.stack_list[SlotPos(s, el)].wp
        j == CHOOSE j \in 1..Len(s.vd[b].list) : s.vd[b].list[j].it = el
    IN  [s EXCEPT !.vd[b].list[j].value = value]

write_ref(r, value) ==
    [Unchanged("none") EXCEPT !.heap[r.p] = WrittenSD(heap[r.p], r.el, value)]


\* ------------------------------------------------------- const_iterator
\* A const_iterator wraps a const_iterator of key_map, a std::map: it is at
\* the entry of a key, or past the last entry (map_end). The map keeps its
\* entries in ascending order of the keys.
map_end == 0

MapKeys(s) == {k \in K : s.key_map[k] # 0}

Least(S) == CHOOSE k \in S : \A x \in S : k <= x

\* key_map.cbegin()
map_begin(s) == IF MapKeys(s) = {} THEN map_end ELSE Least(MapKeys(s))

\* operator++: ++it
map_next(s, it) ==
    IF {k \in MapKeys(s) : k > it} = {} THEN map_end
    ELSE Least({k \in MapKeys(s) : k > it})

stack_cbegin(h) == map_begin(get_data(h))

stack_cend(h) == map_end

\* for (it = cbegin(); it != cend(); ++it): the keys operator* returns.
RECURSIVE Traverse(_, _)
Traverse(s, it) ==
    IF it = map_end THEN <<>> ELSE <<it>> \o Traverse(s, map_next(s, it))

\* for (it = cbegin(); it != cend(); ++it) { front(); pop(); } with the
\* body in try/catch: the keys the iterator stood at and the keys of the
\* entries popped. A front() that throws skips the pop(); ++it on an
\* iterator whose map node the pop() erased is undefined.
RECURSIVE IterPop(_, _, _)
IterPop(s, it, acc) ==
    IF it = map_end
    THEN [err |-> "none", visited |-> acc.visited, popped |-> acc.popped, sd |-> s]
    ELSE LET f == sd_front(s)
             p == sd_pop(s)
             done == f.err = "none" /\ p.err = "none"
             after == IF done THEN p.sd ELSE s
             acc2 == [visited |-> Append(acc.visited, it),
                      popped |-> IF done THEN Append(acc.popped, f.res.key)
                                 ELSE acc.popped]
         IN  IF it \notin MapKeys(after)
             THEN [err |-> "undefined", visited |-> acc2.visited,
                   popped |-> acc2.popped, sd |-> after]
             ELSE IterPop(after, map_next(after, it), acc2)

\* ---------------------------------------------------- what a caller sees
\* The entries of a stack_data, oldest first, read as has_elements reads
\* them: front(), then pop(), until the stack is empty.
RECURSIVE Contents(_)
Contents(s) ==
    IF sd_front(s).err # "none" THEN <<>>
    ELSE Append(Contents(sd_pop(s).sd),
                <<sd_front(s).res.key, sd_front(s).res.value>>)

\* What size(), count(k) and the front()/pop() sequence give for h in the
\* state st a call left.
Seen(st, h) ==
    [size |-> sd_size(st.heap[st.data[h]]),
     count |-> [k \in Keys |-> sd_count(st.heap[st.data[h]], k)],
     seq |-> Contents(st.heap[st.data[h]])]

\* The same, in the current state.
SeenNow(h) == Seen(Unchanged("none"), h)

\* The members of every stack and the heap are as before the call.
AsBefore(st) ==
    /\ st.alive = alive
    /\ st.data = data
    /\ st.unsh = is_unsharable
    /\ st.heap = heap

\* --------------------------------------------------------------- actions
\* A call on a stack that holds nullptr (a moved-from stack) dereferences
\* it; the actions leave such calls out, but for assignment and destruction.
Usable(h) == alive[h] /\ data[h] # Null

ZeroLive == [k \in K |-> 0]

\* The steps that can throw in a call on h.
CloneFails(h) == IF use_count(data[h]) > 1 THEN {"none", "clone"} ELSE {"none"}

PushFailsOf(h, key) ==
    CloneFails(h) \cup
    (IF get_data(h).key_map[key] = 0 THEN PushFails ELSE PushFails \ {"bucket", "insert"})

CopyFails(other) == IF is_unsharable[other] THEN BOOLEAN ELSE {FALSE}

ClearFails(h) == IF use_count(data[h]) > 1 THEN BOOLEAN ELSE {FALSE}

\* What the calls so far amount to, kept beside the program's state: the
\* counts of pushes and pops that returned, and the entries a last-in
\* first-out container holds after them.
Kept == [net |-> net, live |-> live, hist |-> hist]

\* h now holds n, l, q.
Holds(g, h, n, l, q) ==
    [net |-> [g.net EXCEPT ![h] = n], live |-> [g.live EXCEPT ![h] = l],
     hist |-> [g.hist EXCEPT ![h] = q]]

HoldsOf(g, h, other) == Holds(g, h, net[other], live[other], hist[other])

Emptied(g, h) == Holds(g, h, 0, ZeroLive, <<>>)

\* The last entry of key in q removed.
RECURSIVE RemoveLastOf(_, _)
RemoveLastOf(q, key) ==
    IF Len(q) = 0 THEN q
    ELSE IF q[Len(q)][1] = key THEN ButLast(q)
    ELSE Append(RemoveLastOf(ButLast(q), key), q[Len(q)])

\* The state a call leaves, addresses renamed (c); a call is enabled only
\* within the bound on objects.
Put(al, us, c, g) ==
    /\ alive' = al
    /\ data' = c.data
    /\ is_unsharable' = us
    /\ heap' = c.heap
    /\ ref' = c.ref
    /\ net' = g.net
    /\ live' = g.live
    /\ hist' = g.hist

Stored(al, us, c, g) ==
    /\ Nodes(c.heap) + (IF c.ref = NoRef THEN 0 ELSE 1) <= MaxNodes
    /\ Put(al, us, c, g)

\* g: what the call amounts to when it returned; when it threw, nothing.
Commit(st, r, g) ==
    Stored(st.alive, st.unsh, Canon(st.alive, st.data, st.heap, r),
           IF st.err = "none" THEN g ELSE Kept)

Construct(h) ==
    /\ ~alive[h]
    /\ Commit(stack_new(h), ref, Emptied(Kept, h))

CopyConstruct(h, other, fail) ==
    /\ ~alive[h] /\ alive[other]
    /\ is_unsharable[other] => data[other] # Null
    /\ fail \in CopyFails(other)
    /\ Commit(stack_copy(h, other, fail), ref, HoldsOf(Kept, h, other))

MoveConstruct(h, other) ==
    /\ ~alive[h] /\ alive[other]
    /\ Commit(stack_move(h, other), ref, Emptied(HoldsOf(Kept, h, other), other))

Assign(h, arg, fail) ==
    /\ alive[h] /\ alive[arg]
    /\ is_unsharable[arg] => data[arg] # Null
    /\ fail \in CopyFails(arg)
    /\ Commit(stack_assign(h, arg, fail), ref, HoldsOf(Kept, h, arg))

MoveAssign(h, arg) ==
    /\ alive[h] /\ alive[arg] /\ h # arg
    /\ Commit(stack_move_assign(h, arg), ref, Emptied(HoldsOf(Kept, h, arg), arg))

Swap(a, b) ==
    /\ alive[a] /\ alive[b] /\ a # b
    /\ Commit(stack_swap(a, b), ref, HoldsOf(HoldsOf(Kept, a, b), b, a))

Destroy(h) ==
    /\ alive[h]
    /\ Commit(stack_destroy(h), ref, Emptied(Kept, h))

Push(h, key, value, fail) ==
    /\ Usable(h)
    /\ fail \in PushFailsOf(h, key)
    /\ Commit(stack_push(h, key, value, fail), ref,
              Holds(Kept, h, net[h] + 1, [live[h] EXCEPT ![key] = @ + 1],
                    Append(hist[h], <<key, value>>)))

\* pop() removes the last entry pushed and not yet removed.
Pop(h, fail) ==
    /\ Usable(h)
    /\ fail \in CloneFails(h)
    /\ Commit(stack_pop(h, fail), ref,
              Holds(Kept, h, net[h] - 1,
                    [live[h] EXCEPT ![hist[h][Len(hist[h])][1]] = @ - 1],
                    ButLast(hist[h])))

\* pop(k) removes the last entry pushed under k and not yet removed.
PopKey(h, k, fail) ==
    /\ Usable(h)
    /\ fail \in CloneFails(h)
    /\ Commit(stack_pop_key(h, k, fail), ref,
              Holds(Kept, h, net[h] - 1, [live[h] EXCEPT ![k] = @ - 1],
                    RemoveLastOf(hist[h], k)))

\* keep: the caller keeps the reference returned, or lets it go.
CommitRef(st, h, keep) ==
    Commit(st,
           IF st.err = "none" /\ keep
           THEN [h |-> h, p |-> st.at, el |-> st.res.el] ELSE ref,
           Kept)

Front(h, fail, keep) ==
    /\ Usable(h)
    /\ fail \in CloneFails(h)
    /\ CommitRef(stack_front(h, fail), h, keep)

FrontKey(h, k, fail, keep) ==
    /\ Usable(h)
    /\ fail \in CloneFails(h)
    /\ CommitRef(stack_front_key(h, k, fail), h, keep)

Clear(h, fail) ==
    /\ Usable(h)
    /\ fail \in ClearFails(h)
    /\ Commit(stack_clear(h, fail), ref, Emptied(Kept, h))

\* The entry the reference refers to has the new value in every stack that
\* holds its storage block.
Written(r, value) ==
    LET pos == SlotPos(heap[r.p], r.el)
    IN  [Kept EXCEPT !.hist = [h \in Handles |->
            IF alive[h] /\ data[h] = r.p /\ pos <= Len(hist[h])
            THEN [hist[h] EXCEPT ![pos] = <<@[1], value>>] ELSE hist[h]]]

WriteRef(value) ==
    /\ ref # NoRef
    /\ Commit(write_ref(ref, value), ref, Written(ref, value))

\* The caller lets the reference it kept go.
DropRef ==
    /\ ref # NoRef
    /\ Commit(Unchanged("none"), NoRef, Kept)

Init ==
    /\ alive = [h \in Handles |-> h = "a"]
    /\ data = [h \in Handles |-> IF h = "a" THEN 1 ELSE Null]
    /\ is_unsharable = [h \in Handles |-> FALSE]
    /\ heap = <<NewStackData>>
    /\ ref = NoRef
    /\ net = [h \in Handles |-> 0]
    /\ live = [h \in Handles |-> ZeroLive]
    /\ hist = [h \in Handles |-> <<>>]

Next ==
    \/ \E h \in Two : Construct(h)
    \/ \E h, other \in Two, fail \in BOOLEAN : CopyConstruct(h, other, fail)
    \/ \E h, other \in Two : MoveConstruct(h, other)
    \/ \E h, arg \in Two, fail \in BOOLEAN : Assign(h, arg, fail)
    \/ \E h, arg \in Two : MoveAssign(h, arg)
    \/ \E a, b \in Two : Swap(a, b)
    \/ \E h \in Two : Destroy(h)
    \/ \E h \in Two, key \in PushKeys, value \in Values, fail \in PushFails \cup {"clone"} :
          Push(h, key, value, fail)
    \/ \E h \in Two, fail \in {"none", "clone"} : Pop(h, fail)
    \/ \E h \in Two, k \in Keys, fail \in {"none", "clone"} : PopKey(h, k, fail)
    \/ \E h \in Two, fail \in {"none", "clone"}, keep \in BOOLEAN : Front(h, fail, keep)
    \/ \E h \in Two, k \in Keys, fail \in {"none", "clone"}, keep \in BOOLEAN :
          FrontKey(h, k, fail, keep)
    \/ \E h \in Two, fail \in BOOLEAN : Clear(h, fail)
    \/ \E value \in Values : WriteRef(value)
    \/ DropRef

Spec == Init /\ [][Next]_vars

\* Three stacks, without the allocation failures, the kept reference and the
\* choice of values.
Next3 ==
    \/ \E h \in Handles : Construct(h)
    \/ \E h, other \in Handles : CopyConstruct(h, other, FALSE)
    \/ \E h \in Handles, key \in PushKeys : Push(h, key, 1, "none")
    \/ \E h \in Handles : Pop(h, "none")
    \/ \E h \in Handles : Front(h, "none", FALSE)
    \/ \E h, arg \in Handles, fail \in BOOLEAN : Assign(h, arg, fail)
    \/ \E a, b \in Handles : Swap(a, b)
    \/ \E h \in Handles : Destroy(h)

Spec3 == Init /\ [][Next3]_vars

\* The calls that make and change a stack_data: push, pop(), pop(k) and
\* clear(), throwing or not, front() that makes the stack unsharable, and
\* the copy that shares the stack_data or copies it deep.
NextData ==
    \/ \E h \in Two : Construct(h)
    \/ \E h, other \in Two, fail \in BOOLEAN : CopyConstruct(h, other, fail)
    \/ \E h \in Two : Destroy(h)
    \/ \E h \in Two, key \in PushKeys, value \in Values, fail \in PushFails \cup {"clone"} :
          Push(h, key, value, fail)
    \/ \E h \in Two, fail \in {"none", "clone"} : Pop(h, fail)
    \/ \E h \in Two, k \in Keys, fail \in {"none", "clone"} : PopKey(h, k, fail)
    \/ \E h \in Two, fail \in {"none", "clone"} : Front(h, fail, FALSE)
    \/ \E h \in Two, fail \in BOOLEAN : Clear(h, fail)

SpecData == Init /\ [][NextData]_vars

\* One stack that nothing shares, as steck1 of the test that pops while it
\* iterates: push(i, i) of any key of K, up to MaxLoop entries, and pop().
LoopPush(key) ==
    /\ Usable("a")
    /\ Len(hist["a"]) < MaxLoop
    /\ LET st == stack_push("a", key, key, "none")
       IN  Put(st.alive, st.unsh, Canon(st.alive, st.data, st.heap, ref),
               Holds(Kept, "a", net["a"] + 1, [live["a"] EXCEPT ![key] = @ + 1],
                     Append(hist["a"], <<key, key>>)))

NextLoop ==
    \/ \E key \in K : LoopPush(key)
    \/ Pop("a", "none")

SpecLoop == Init /\ [][NextLoop]_vars

\* ---------------------------------------------------------------- claims
\* The calls that change the contents of h: what each leaves, whatever the
\* step that throws.
Mutations(h) ==
    {stack_push(h, kv[1], kv[2], f) :
        kv \in PushKeys \X Values, f \in PushFails \cup {"clone"}}
    \cup {stack_pop(h, f) : f \in {"none", "clone"}}
    \cup {stack_pop_key(h, kf[1], kf[2]) : kf \in Keys \X {"none", "clone"}}
    \cup {stack_clear(h, f) : f \in BOOLEAN}

\* C1: copy independence. Whatever two stacks hold (the same stack_data
\* after a copy or an assignment, or different ones), a push, pop(), pop(k)
\* or clear() on one of them, returning or throwing, leaves the size, the
\* count of every key and the (key, value) sequence of the other as they
\* were.
C1_CopyIndependence ==
    \A g, h \in Handles :
        (g # h /\ Usable(g) /\ Usable(h)) =>
            \A st \in Mutations(g) : Seen(st, h) = SeenNow(h)

\* A stack and its copy share a non-empty stack_data, and a push on the one
\* gives it a stack_data of its own with one entry more.
C1_Witness ==
    \E g, h \in Handles :
        /\ g # h /\ Usable(g) /\ Usable(h)
        /\ data[g] = data[h]
        /\ stack_size(g) > 0
        /\ LET st == stack_push(g, 1, 2, "none")
           IN  /\ st.err = "none"
               /\ st.data[g] # st.data[h]
               /\ Seen(st, g).size = SeenNow(h).size + 1

\* The reference kept refers to an element of the stack_data that the
\* stack it was taken from still holds.
RefInOwner == ref # NoRef /\ alive[ref.h] /\ data[ref.h] = ref.p

\* No other stack holds the stack_data the reference refers into, and a
\* write through the reference changes nothing another stack shows.
RefPrivate ==
    \A g \in Handles \ {ref.h} :
        Usable(g) =>
            /\ data[g] # ref.p
            /\ \A value \in Values : Seen(write_ref(ref, value), g) = SeenNow(g)

C3_SizeIsPushesMinusPops ==
    \A h \in Handles : Usable(h) => stack_size(h) = net[h]

\* Two pushes returned on a stack, and a pop() on it takes the size to one.
C3_Witness ==
    \E h \in Handles :
        /\ Usable(h)
        /\ net[h] = 2
        /\ stack_size(h) = 2
        /\ stack_pop(h, "none").err = "none"
        /\ Seen(stack_pop(h, "none"), h).size = 1

\* C4: count(k) is the number of values pushed under k and not removed by
\* pop(), pop(k) or clear(); 0 for a key with none.
C4_CountIsLiveValues ==
    \A h \in Handles :
        Usable(h) => \A k \in Keys : stack_count(h, k) = live[h][k]

\* A stack holds two values under one key and one under another, and none
\* under a third.
C4_Witness ==
    \E h \in Handles :
        /\ Usable(h)
        /\ live[h][1] = 2 /\ stack_count(h, 1) = 2
        /\ live[h][2] = 1 /\ stack_count(h, 2) = 1
        /\ stack_count(h, 3) = 0

\* C5: global LIFO. The entries front() and pop() give, read until the
\* stack is empty, are the entries pushed and not removed, newest first;
\* front() returns the newest of them and pop() removes exactly that one.
C5_GlobalLifo ==
    \A h \in Handles :
        Usable(h) =>
            /\ SeenNow(h).seq = hist[h]
            /\ Len(hist[h]) > 0 =>
                  /\ stack_front_const(h).err = "none"
                  /\ <<stack_front_const(h).res.key, stack_front_const(h).res.value>>
                        = hist[h][Len(hist[h])]
                  /\ stack_front(h, "none").res = stack_front_const(h).res
                  /\ stack_pop(h, "none").err = "none"
                  /\ Seen(stack_pop(h, "none"), h).seq = ButLast(hist[h])

\* Three entries under mixed keys, the newest under the key of the oldest
\* with another value, and front() returns the newest.
C5_Witness ==
    \E h \in Handles :
        /\ Usable(h)
        /\ Len(hist[h]) = 3
        /\ hist[h][1][1] = hist[h][3][1]
        /\ hist[h][1][1] # hist[h][2][1]
        /\ hist[h][1][2] # hist[h][3][2]
        /\ stack_front_const(h).res.value = hist[h][3][2]

\* The value of the last entry of key in q.
RECURSIVE LastOf(_, _)
LastOf(q, key) ==
    IF Len(q) = 0 THEN 0
    ELSE IF q[Len(q)][1] = key THEN q[Len(q)][2]
    ELSE LastOf(ButLast(q), key)

\* C6: pop(k) with k present removes one entry, the last pushed under k
\* and not removed, on top or not; the order of the entries that remain is
\* as it was, and front(k) before the call returns the value removed.
C6_PopKeyRemovesLastOfKey ==
    \A h \in Handles, k \in Keys :
        (Usable(h) /\ stack_count(h, k) > 0) =>
            /\ stack_pop_key(h, k, "none").err = "none"
            /\ Seen(stack_pop_key(h, k, "none"), h).seq = RemoveLastOf(hist[h], k)
            /\ Seen(stack_pop_key(h, k, "none"), h).size = Len(hist[h]) - 1
            /\ stack_front_key_const(h, k).err = "none"
            /\ stack_front_key_const(h, k).res.value = LastOf(hist[h], k)
            /\ stack_front_key(h, k, "none").res = stack_front_key_const(h, k).res

\* Two values under a key with an entry of another key pushed after them:
\* pop(k) removes an entry that is not on top, of a key that keeps a value.
C6_Witness ==
    \E h \in Handles, k \in Keys :
        /\ Usable(h)
        /\ Len(hist[h]) = 3
        /\ hist[h][1][1] = k /\ hist[h][2][1] = k /\ hist[h][3][1] # k
        /\ hist[h][1][2] # hist[h][2][2]
        /\ Seen(stack_pop_key(h, k, "none"), h).seq = <<hist[h][1], hist[h][3]>>

\* C7: on an empty stack pop(), front(), pop(k) and front(k), for every k,
\* throw EmptyContainer: the keyed forms check for emptiness before they
\* look the key up.
C7_EmptyContainerFirst ==
    \A h \in Handles :
        (Usable(h) /\ stack_size(h) = 0) =>
            /\ stack_pop(h, "none").err = "EmptyContainer"
            /\ stack_front(h, "none").err = "EmptyContainer"
            /\ stack_front_const(h).err = "EmptyContainer"
            /\ \A k \in Keys :
                  /\ stack_pop_key(h, k, "none").err = "EmptyContainer"
                  /\ stack_front_key(h, k, "none").err = "EmptyContainer"
                  /\ stack_front_key_const(h, k).err = "EmptyContainer"

\* A stack that shares an empty stack_data with its copy: pop(k) throws
\* EmptyContainer for a key that is pushed and for one that never is.
C7_Witness ==
    \E g, h \in Handles :
        /\ g # h /\ Usable(g) /\ Usable(h)
        /\ data[g] = data[h]
        /\ stack_size(h) = 0
        /\ stack_pop_key(h, 1, "none").err = "EmptyContainer"
        /\ stack_pop_key(h, 3, "none").err = "EmptyContainer"

\* The keys no push is ever called with.
NeverPushed == Keys \ PushKeys

\* pop(k) and front(k) on h throw e for every key never pushed.
KeyedThrow(h, e) ==
    \A k \in NeverPushed :
        /\ stack_pop_key(h, k, "none").err = e
        /\ stack_front_key(h, k, "none").err = e
        /\ stack_front_key_const(h, k).err = e

\* C8 as stated: in every reachable state pop(k) and front(k) with a key
\* never pushed throw KeyNotFound.
C8_Original ==
    \A h \in Handles : Usable(h) => KeyedThrow(h, "KeyNotFound")

\* C8: in every reachable state in which the stack is not empty pop(k) and
\* front(k) with a key never pushed throw KeyNotFound; on an empty stack
\* they throw EmptyContainer.
C8_KeyNotFoundWhenNonEmpty ==
    \A h \in Handles :
        Usable(h) =>
            KeyedThrow(h, IF stack_size(h) > 0 THEN "KeyNotFound" ELSE "EmptyContainer")

\* A stack with entries under both keys that are pushed, and pop(k) with
\* the key that is not throws KeyNotFound.
C8_Witness ==
    \E h \in Handles :
        /\ Usable(h)
        /\ stack_count(h, 1) > 0 /\ stack_count(h, 2) > 0
        /\ \E k \in NeverPushed : stack_pop_key(h, k, "none").err = "KeyNotFound"

\* The pop() and pop(k) calls on h: what each leaves.
Pops(h) ==
    {stack_pop(h, "none")} \cup {stack_pop_key(h, k, "none") : k \in Keys}

\* C9: a pop() or pop(k) that throws EmptyContainer or KeyNotFound leaves
\* the stack as it was, shared or not: the stack_data it holds and the
\* stacks that hold it, its flag, and every entry of every stack.
C9_FailedPopChangesNothing ==
    \A h \in Handles :
        Usable(h) =>
            \A st \in Pops(h) :
                st.err \in {"EmptyContainer", "KeyNotFound"} =>
                    /\ AsBefore(st)
                    /\ \A g \in Handles : Usable(g) => Seen(st, g) = SeenNow(g)

\* A stack that shares a non-empty stack_data: pop(k) copies it, throws
\* KeyNotFound on the copy, and the stack holds what it held.
C9_Witness ==
    \E g, h \in Handles :
        /\ g # h /\ Usable(g) /\ Usable(h)
        /\ data[g] = data[h]
        /\ stack_size(h) > 0
        /\ stack_pop_key(h, 3, "none").err = "KeyNotFound"
        /\ AsBefore(stack_pop_key(h, 3, "none"))

\* The push calls on h in which a step throws: what each leaves.
FailedPushes(h) ==
    {stack_push(h, kf[1], kf[2], kf[3]) :
        kf \in {x \in PushKeys \X Values \X (PushFails \cup {"clone"}) :
                    x[3] \in PushFailsOf(h, x[1]) \ {"none"}}}

\* No list node of stack_list without an entry in a bucket, no bucket
\* without entries or without its key in key_map.
WellFormed(s) ==
    /\ \A i \in 1..Len(s.stack_list) :
          /\ s.stack_list[i].wp \in DOMAIN s.vd
          /\ \E j \in 1..Len(s.vd[s.stack_list[i].wp].list) :
                s.vd[s.stack_list[i].wp].list[j].it = s.stack_list[i].id
    /\ \A b \in DOMAIN s.vd :
          /\ Len(s.vd[b].list) > 0
          /\ s.key_map[s.vd[b].it] = b

\* C10: a push in which a step throws (the list node of the slot, the copy
\* of the value, the key comparison, the new bucket, its entry, the map
\* node of the key, the copy of a shared stack_data) throws, and leaves
\* stack_list, key_map and every bucket as before the call: no slot without
\* an entry, no empty or orphaned bucket, the same size and counts.
C10_PushRollback ==
    \A h \in Handles :
        Usable(h) =>
            /\ WellFormed(get_data(h))
            /\ \A st \in FailedPushes(h) :
                  /\ st.err = "exception"
                  /\ AsBefore(st)
                  /\ WellFormed(st.heap[st.data[h]])
                  /\ Seen(st, h) = SeenNow(h)

\* A non-empty stack, not shared, on which the push of a key without an
\* entry throws at the insertion into key_map, after the slot was appended
\* and the bucket allocated.
C10_Witness ==
    \E h \in Handles :
        /\ Usable(h)
        /\ use_count(data[h]) = 1
        /\ stack_count(h, 1) > 0 /\ stack_count(h, 2) = 0
        /\ "insert" \in PushFailsOf(h, 2)
        /\ stack_push(h, 2, 1, "insert").err = "exception"
        /\ AsBefore(stack_push(h, 2, 1, "insert"))

\* The calls the claim takes for non-failing, their precondition holding:
\* clear(), pop() on a stack with entries, pop(k) with k present; each with
\* and without the allocation of a new stack_data failing.
NonFailing(h) ==
    {stack_clear(h, f) : f \in BOOLEAN}
    \cup (IF stack_size(h) > 0
          THEN {stack_pop(h, f) : f \in {"none", "clone"}} ELSE {})
    \cup {stack_pop_key(h, kf[1], kf[2]) :
            kf \in {x \in Keys \X {"none", "clone"} : stack_count(h, x[1]) > 0}}

\* C11 as stated: clear(), pop() on a non-empty stack and pop(k) with k
\* present complete without an error, on a shared stack as on one that is
\* not, also when an allocation fails.
C11_Original ==
    \A h \in Handles :
        Usable(h) => \A st \in NonFailing(h) : st.err = "none"

\* C11: the same on a stack that is not shared; on a shared one the call
\* allocates a new stack_data, and completes unless that allocation fails:
\* then the allocation's exception surfaces and the stack is as before.
C11_NonFailingUnlessCloneFails ==
    \A h \in Handles :
        Usable(h) =>
            /\ use_count(data[h]) = 1 => \A st \in NonFailing(h) : st.err = "none"
            /\ \A st \in NonFailing(h) :
                  st.err # "none" => (st.err = "exception" /\ AsBefore(st))
            /\ stack_clear(h, FALSE).err = "none"
            /\ stack_size(h) > 0 => stack_pop(h, "none").err = "none"

\* A stack that shares a stack_data with entries: pop() and clear()
\* complete when the allocation succeeds, and throw what the allocation
\* throws, leaving the stack as it was, when it fails.
C11_Witness ==
    \E g, h \in Handles :
        /\ g # h /\ Usable(g) /\ Usable(h)
        /\ data[g] = data[h]
        /\ stack_size(h) = 2
        /\ stack_pop(h, "none").err = "none"
        /\ stack_pop(h, "clone").err = "exception"
        /\ stack_clear(h, TRUE).err = "exception"
        /\ AsBefore(stack_clear(h, TRUE))

\* C12: after a clear() that returned, on a stack shared or not, unsharable
\* or not, the stack has size 0, count 0 for every key, no entries, and is
\* not unsharable; every other stack has the size, counts and entries it
\* had.
C12_ClearFrame ==
    \A h \in Handles :
        Usable(h) =>
            \A f \in BOOLEAN :
                stack_clear(h, f).err = "none" =>
                    /\ Seen(stack_clear(h, f), h) =
                          [size |-> 0, count |-> [k \in Keys |-> 0], seq |-> <<>>]
                    /\ ~stack_clear(h, f).unsh[h]
                    /\ \A g \in Handles \ {h} :
                          Usable(g) => Seen(stack_clear(h, f), g) = SeenNow(g)

\* A stack that shares a stack_data with entries: clear() leaves the other
\* stack its entries.
C12_Witness ==
    \E g, h \in Handles :
        /\ g # h /\ Usable(g) /\ Usable(h)
        /\ data[g] = data[h]
        /\ stack_size(h) = 2
        /\ Seen(stack_clear(h, FALSE), h).size = 0
        /\ Seen(stack_clear(h, FALSE), g).size = 2

\* C13 as stated: after a move construction or move assignment from a
\* stack, the destination has its stack_data and flag, and the stack moved
\* from (alive, holding nullptr) is empty: size() is 0 and count(k) is 0
\* for every k.
C13_MovedFromIsEmpty ==
    \A h \in Handles :
        (alive[h] /\ data[h] = Null) =>
            /\ size_call(h) = {Returns(0)}
            /\ \A k \in Keys : count_call(h, k) = {Returns(0)}

\* What swap(a, b) leaves, and what a second swap(a, b) leaves after it.
SwapOnce(a, b) == stack_swap(a, b)

SwapTwice(a, b) == swap_on(stack_swap(a, b), a, b)

\* The stacks that hold the stack_data at address p in st.
Holders(st, p) == {h \in Handles : st.alive[h] /\ st.data[h] = p}

\* C14: swap(a, b) exchanges what a and b show (entries, counts) and their
\* flags, creates and frees no stack_data, changes no reference count and
\* leaves every third stack, one that shares with a or b too, as it was;
\* a second swap restores the state.
C14_SwapExchanges ==
    \A a, b \in Handles :
        (a # b /\ Usable(a) /\ Usable(b)) =>
            /\ SwapOnce(a, b).err = "none"
            /\ Seen(SwapOnce(a, b), a) = SeenNow(b)
            /\ Seen(SwapOnce(a, b), b) = SeenNow(a)
            /\ SwapOnce(a, b).unsh[a] = is_unsharable[b]
            /\ SwapOnce(a, b).unsh[b] = is_unsharable[a]
            /\ SwapOnce(a, b).heap = heap
            /\ SwapOnce(a, b).alive = alive
            /\ \A p \in 1..Len(heap) :
                  Cardinality(Holders(SwapOnce(a, b), p)) = use_count(p)
            /\ \A c \in Handles \ {a, b} :
                  /\ SwapOnce(a, b).data[c] = data[c]
                  /\ SwapOnce(a, b).unsh[c] = is_unsharable[c]
                  /\ Usable(c) => Seen(SwapOnce(a, b), c) = SeenNow(c)
            /\ AsBefore(SwapTwice(a, b))

\* Three stacks: one unsharable, another with other entries that shares its
\* stack_data with the third.
C14_Witness ==
    \E a, b, c \in Handles :
        /\ a # b /\ a # c /\ b # c
        /\ Usable(a) /\ Usable(b) /\ Usable(c)
        /\ is_unsharable[a] /\ ~is_unsharable[b]
        /\ data[b] = data[c]
        /\ SeenNow(a).seq # SeenNow(b).seq
        /\ stack_size(a) > 0 /\ stack_size(b) > 0
        /\ Seen(SwapOnce(a, b), c) = SeenNow(b)

\* What the queries give on a stack_data: size(), count(k) and front(k) for
\* every key (the value, or the throw), and the front()/pop() sequence.
Observed(s) ==
    [size |-> sd_size(s),
     count |-> [k \in Keys |-> sd_count(s, k)],
     front |-> [k \in Keys |->
                  [err |-> sd_front_key(s, k).err, value |-> sd_front_key(s, k).res.value]],
     seq |-> Contents(s)]

ObservedOf(st, h) == Observed(st.heap[st.data[h]])

\* The copy of a made by the copy constructor (b not yet constructed) or by
\* assignment (b constructed).
CopyTo(b, a) == IF alive[b] THEN stack_assign(b, a, FALSE) ELSE stack_copy(b, a, FALSE)

\* C15: copy exactness. A copy of a stack, made by the copy constructor or
\* by assignment, sharing or by the replaying deep copy, and the copy that
\* copy-on-write makes, answer every query as the source does: size,
\* count and front(k) for every key, and the sequence popped to empty.
C15_CopyExact ==
    \A a \in Handles :
        Usable(a) =>
            /\ sd_copy(get_data(a), FALSE).err = "none"
            /\ Observed(sd_copy(get_data(a), FALSE).sd) = Observed(get_data(a))
            /\ Observed(make_copy_if_needed(a, FALSE, FALSE).hp[
                            make_copy_if_needed(a, FALSE, FALSE).first])
                  = Observed(get_data(a))
            /\ \A b \in Handles \ {a} :
                  /\ CopyTo(b, a).err = "none"
                  /\ ObservedOf(CopyTo(b, a), b) = Observed(get_data(a))
                  /\ ObservedOf(CopyTo(b, a), a) = Observed(get_data(a))

\* An unsharable stack with two values under one key and an entry of
\* another key between them: its copy is a replayed deep copy.
C15_Witness ==
    \E a, b \in Handles :
        /\ a # b /\ Usable(a)
        /\ is_unsharable[a]
        /\ Len(hist[a]) = 3
        /\ hist[a][1][1] = hist[a][3][1]
        /\ hist[a][1][1] # hist[a][2][1]
        /\ hist[a][1][2] # hist[a][3][2]
        /\ CopyTo(b, a).data[b] # data[a]
        /\ ObservedOf(CopyTo(b, a), b).seq = hist[a]

\* The stack_data of h after the call that left st returned a reference
\* and the caller assigned value through it.
AfterWrite(st, h, value) ==
    [st.heap EXCEPT ![st.at] = WrittenSD(@, st.res.el, value)][st.data[h]]

\* C16: a value written through the reference a mutable front() or
\* front(k) returned is what front() and front(k) on the same stack return
\* afterwards, also when the stack was shared at the call: the reference
\* refers into the stack_data the stack holds after the copy.
C16_WriteSeenThroughOwner ==
    \A h \in Handles, value \in Values :
        (Usable(h) /\ stack_size(h) > 0) =>
            /\ stack_front(h, "none").err = "none"
            /\ stack_front(h, "none").at = stack_front(h, "none").data[h]
            /\ sd_front(AfterWrite(stack_front(h, "none"), h, value)).res.value = value
            /\ sd_front_key(AfterWrite(stack_front(h, "none"), h, value),
                            stack_front(h, "none").res.key).res.value = value
            /\ \A k \in Keys :
                  stack_count(h, k) > 0 =>
                      /\ stack_front_key(h, k, "none").err = "none"
                      /\ sd_front_key(AfterWrite(stack_front_key(h, k, "none"), h, value),
                                      k).res.value = value
                      /\ stack_front_const(h).res.key = k =>
                            sd_front(AfterWrite(stack_front_key(h, k, "none"), h, value)
                                    ).res.value = value

\* A stack that shares its stack_data: front() copies it and returns a
\* reference into the copy, and the value written is another than the one
\* the shared stack_data keeps.
C16_Witness ==
    \E g, h \in Handles :
        /\ g # h /\ Usable(g) /\ Usable(h)
        /\ data[g] = data[h]
        /\ stack_size(h) > 0
        /\ stack_front(h, "none").at # data[h]
        /\ stack_front_const(h).res.value = 1
        /\ sd_front(AfterWrite(stack_front(h, "none"), h, 2)).res.value = 2
        /\ sd_front(AfterWrite(stack_front(h, "none"), g, 2)).res.value = 1

\* The keys a traversal of h from cbegin() to cend() visits, in order.
Visited(h) == Traverse(get_data(h), stack_cbegin(h))

\* C17: a traversal from cbegin() to cend() visits the keys k with
\* count(k) > 0, each once, in ascending order of the keys, whatever the
\* order of the pushes; on an empty stack cbegin() is cend().
C17_IteratorVisitsPresentKeys ==
    \A h \in Handles :
        Usable(h) =>
            /\ {Visited(h)[i] : i \in 1..Len(Visited(h))}
                  = {k \in Keys : stack_count(h, k) > 0}
            /\ \A i, j \in 1..Len(Visited(h)) : i < j => Visited(h)[i] < Visited(h)[j]
            /\ stack_size(h) = 0 => stack_cbegin(h) = stack_cend(h)

\* The greater key was pushed first, and again after the lesser: the
\* traversal visits each of the two keys once, the lesser first.
C17_Witness ==
    \E h \in Handles :
        /\ Usable(h)
        /\ Len(hist[h]) = 3
        /\ hist[h][1][1] = 2 /\ hist[h][2][1] = 1 /\ hist[h][3][1] = 2
        /\ Visited(h) = <<1, 2>>

\* The push, pop() and pop(k) calls on h, whatever the step that throws.
Ordinary(h) ==
    {stack_push(h, kv[1], kv[2], f) :
        kv \in PushKeys \X Values, f \in PushFails \cup {"clone"}}
    \cup {stack_pop(h, f) : f \in {"none", "clone"}}
    \cup {stack_pop_key(h, kf[1], kf[2]) : kf \in Keys \X {"none", "clone"}}

C19_CopyConstruction ==
    \A h, other \in Handles :
        (~alive[h] /\ Usable(other)) =>
            /\ stack_copy(h, other, FALSE).err = "none"
            /\ stack_copy(h, other, FALSE).alive[h]
            /\ ~stack_copy(h, other, FALSE).unsh[h]
            /\ stack_copy(h, other, FALSE).data[other] = data[other]
            /\ stack_copy(h, other, FALSE).unsh[other] = is_unsharable[other]
            /\ SubSeq(stack_copy(h, other, FALSE).heap, 1, Len(heap)) = heap
            /\ IF is_unsharable[other]
               THEN /\ Len(stack_copy(h, other, FALSE).heap) = Len(heap) + 1
                    /\ stack_copy(h, other, FALSE).data[h] = Len(heap) + 1
                    /\ Holders(stack_copy(h, other, FALSE), Len(heap) + 1) = {h}
                    /\ Cardinality(Holders(stack_copy(h, other, FALSE), data[other]))
                          = use_count(data[other])
                    /\ stack_copy(h, other, TRUE).err = "exception"
                    /\ AsBefore(stack_copy(h, other, TRUE))
               ELSE /\ stack_copy(h, other, FALSE).heap = heap
                    /\ stack_copy(h, other, FALSE).data[h] = data[other]
                    /\ Cardinality(Holders(stack_copy(h, other, FALSE), data[other]))
                          = use_count(data[other]) + 1
                    /\ stack_copy(h, other, TRUE).err = "none"

\* An unsharable stack with entries and a stack not yet constructed: the
\* copy is a deep copy with the same entries.
C19_Witness ==
    \E h, other \in Handles :
        /\ ~alive[h] /\ Usable(other)
        /\ is_unsharable[other]
        /\ stack_size(other) = 2
        /\ stack_copy(h, other, FALSE).data[h] # data[other]
        /\ Seen(stack_copy(h, other, FALSE), h) = SeenNow(other)

\* The mutable front() and front(k) calls on h, the copy succeeding.
FailedFronts(h) ==
    {st \in {stack_front(h, "none")} \cup {stack_front_key(h, k, "none") : k \in Keys} :
        st.err \in {"EmptyContainer", "KeyNotFound"}}

\* C20 as stated: a mutable front() or front(k) that throws EmptyContainer
\* or KeyNotFound leaves the stack as before the call: the same stack_data
\* with the same owners (no copy is kept) and the same flag.
C20_FailedFrontAtomic ==
    \A h \in Handles :
        Usable(h) => \A st \in FailedFronts(h) : AsBefore(st)

\* C21: copy assignment b = a. When the copy of a throws (the deep copy of
\* an unsharable a), b keeps its stack_data, entries and flag, a is as it
\* was, and no stack holds a partly built stack_data; a = a leaves what a
\* shows as it was.
C21_AssignStrongSafety ==
    \A a, b \in Handles :
        (alive[b] /\ Usable(a)) =>
            /\ is_unsharable[a] =>
                  /\ stack_assign(b, a, TRUE).err = "exception"
                  /\ AsBefore(stack_assign(b, a, TRUE))
            /\ ~is_unsharable[a] => stack_assign(b, a, TRUE).err = "none"
            /\ stack_assign(b, a, FALSE).err = "none"
            /\ a = b => Seen(stack_assign(a, a, FALSE), a) = SeenNow(a)

\* An unsharable stack with entries and a stack with other entries: the
\* assignment throws in the deep copy and the target keeps its entries;
\* and the self-assignment gives the source a stack_data of its own.
C21_Witness ==
    \E a, b \in Handles :
        /\ a # b /\ Usable(a) /\ Usable(b)
        /\ is_unsharable[a]
        /\ stack_size(a) > 0 /\ stack_size(b) > 0
        /\ SeenNow(a).seq # SeenNow(b).seq
        /\ stack_assign(b, a, TRUE).err = "exception"
        /\ Seen(stack_assign(b, a, TRUE), b) = SeenNow(b)
        /\ stack_assign(a, a, FALSE).data[a] # data[a]

\* key_map has an entry for a key exactly when the key's bucket holds an
\* entry: every map entry owns a bucket of its key with a non-empty list,
\* and every bucket with entries is the one its key's map entry owns.
KeyIffBucket(s) ==
    /\ \A k \in K :
          s.key_map[k] # 0 =>
              /\ s.key_map[k] \in DOMAIN s.vd
              /\ s.vd[s.key_map[k]].it = k
              /\ Len(s.vd[s.key_map[k]].list) > 0
    /\ \A b \in DOMAIN s.vd :
          Len(s.vd[b].list) > 0 => s.key_map[s.vd[b].it] = b

\* The stack_data a push (returning, or throwing at any step), a pop(), a
\* pop(k), a clear() or a deep copy makes of s.
Made(s) ==
    {sd_push(s, kv[1], kv[2], f).sd : kv \in PushKeys \X Values, f \in PushFails}
    \cup {sd_pop(s).sd, sd_clear(s), sd_copy(s, FALSE).sd}
    \cup {sd_pop_key(s, k).sd : k \in Keys}

\* C22: in the stack_data of every stack, and in the one a push (returning
\* or throwing at any step), a pop(), a pop(k), a clear() or a deep copy
\* makes of it, a key has an entry in key_map if and only if its bucket
\* holds a value; a pop() or pop(k) of the last value of a key leaves no
\* entry for the key.
C22_KeyPresentIffBucketNonEmpty ==
    \A h \in Handles :
        Usable(h) =>
            /\ KeyIffBucket(get_data(h))
            /\ \A s \in Made(get_data(h)) : KeyIffBucket(s)
            /\ \A k \in Keys :
                  sd_count(get_data(h), k) = 1 =>
                      /\ sd_pop_key(get_data(h), k).sd.key_map[k] = 0
                      /\ sd_front(get_data(h)).res.key = k =>
                            sd_pop(get_data(h)).sd.key_map[k] = 0

\* A stack with two keys of one value each: pop(k) of the older key erases
\* its entry and keeps the other, and a push of a third value that throws
\* at the insertion of a new key leaves both entries.
C22_Witness ==
    \E h \in Handles :
        /\ Usable(h)
        /\ MapKeys(get_data(h)) = {1, 2}
        /\ sd_size(get_data(h)) = 2
        /\ sd_front(get_data(h)).res.key = 2
        /\ MapKeys(sd_pop_key(get_data(h), 1).sd) = {2}
        /\ MapKeys(sd_pop(get_data(h)).sd) = {1}
        /\ MapKeys(sd_push(get_data(h), 3, 1, "insert").sd) = {1, 2}

\* s2 is s after a pop() of an entry of key kp: key_map lost at most kp,
\* the map node of every other key is the one it was, and ++ from it goes
\* through the greater keys that are left, ascending, up to cend().
PopKeepsIterators(s, s2, kp) ==
    /\ MapKeys(s2) \subseteq MapKeys(s)
    /\ MapKeys(s) \ MapKeys(s2) \subseteq {kp}
    /\ \A it \in MapKeys(s) \ {kp} :
          /\ it \in MapKeys(s2)
          /\ s2.key_map[it] = s.key_map[it]
          /\ LET tr == Traverse(s2, map_next(s2, it))
             IN  /\ {tr[i] : i \in 1..Len(tr)} = {k \in MapKeys(s2) : k > it}
                 /\ \A i, j \in 1..Len(tr) : i < j => tr[i] < tr[j]

\* The keys 1..n pushed once each in ascending order (the test's 0..n-1).
AscendingOnce(q) == \A i \in 1..Len(q) : q[i][1] = i

LoopOf(h) ==
    IterPop(get_data(h), stack_cbegin(h), [visited |-> <<>>, popped |-> <<>>])

\* C23: on a stack that is the only owner of its stack_data, pop() works on
\* that stack_data in place and takes from key_map at most the key of the
\* popped entry, so an iterator at any other key stays valid and ++ takes
\* it through the greater keys left, in ascending order, to cend(); and the
\* loop from cbegin() doing front() and pop() once per key visited, on a
\* stack holding the keys 1..2m pushed once each in ascending order, visits
\* the keys 1..m and pops the keys 2m down to m+1.
C23_PopKeepsOtherIterators ==
    \A h \in Handles :
        (Usable(h) /\ use_count(data[h]) = 1 /\ stack_size(h) > 0) =>
            /\ stack_pop(h, "none").err = "none"
            /\ stack_pop(h, "none").data[h] = data[h]
            /\ PopKeepsIterators(get_data(h),
                                 stack_pop(h, "none").heap[data[h]],
                                 sd_front(get_data(h)).res.key)
            /\ (Len(hist[h]) % 2 = 0 /\ AscendingOnce(hist[h])) =>
                  /\ LoopOf(h).err = "none"
                  /\ LoopOf(h).visited = [i \in 1..(Len(hist[h]) \div 2) |-> i]
                  /\ LoopOf(h).popped =
                        [i \in 1..(Len(hist[h]) \div 2) |-> Len(hist[h]) + 1 - i]
                  /\ MapKeys(LoopOf(h).sd) = 1..(Len(hist[h]) \div 2)

\* The keys 1, 2, 3, 4 pushed in this order: the loop visits 1 and 2 and
\* pops 4 and 3; the first pop() erases key 4 and leaves the iterator at
\* key 1 with the keys 2 and 3 ahead.
C23_Witness ==
    /\ Usable("a") /\ use_count(data["a"]) = 1
    /\ Len(hist["a"]) = 4 /\ AscendingOnce(hist["a"])
    /\ LoopOf("a").visited = <<1, 2>>
    /\ LoopOf("a").popped = <<4, 3>>
    /\ MapKeys(stack_pop("a", "none").heap[data["a"]]) = {1, 2, 3}
    /\ Traverse(stack_pop("a", "none").heap[data["a"]],
                map_next(stack_pop("a", "none").heap[data["a"]], 1)) = <<2, 3>>

\* The positions in bucket b of the elements whose iterator is the list
\* node of slot i.
EntriesOf(s, b, i) ==
    {j \in 1..Len(s.vd[b].list) : s.vd[b].list[j].it = s.stack_list[i].id}

\* The value of slot i: the one of the element that refers back to it.
SlotValue(s, i) ==
    LET b == s.stack_list[i].wp
    IN  s.vd[b].list[CHOOSE j \in EntriesOf(s, b, i) : TRUE].value

\* Slots of stack_list and elements of the buckets refer to each other:
\* each slot's weak_ptr locks to a bucket that key_map owns and that holds
\* exactly one element with the slot's iterator; each element's iterator is
\* a list node of stack_list whose weak_ptr locks to the element's bucket;
\* the elements of a bucket are in the order of their slots; the last slot's
\* element is the last of its bucket.
Consistent(s) ==
    /\ \A i, j \in 1..Len(s.stack_list) :
          i # j => s.stack_list[i].id # s.stack_list[j].id
    /\ \A i \in 1..Len(s.stack_list) :
          LET b == Lock(s, s.stack_list[i].wp)
          IN  /\ b # 0
              /\ s.key_map[s.vd[b].it] = b
              /\ Cardinality(EntriesOf(s, b, i)) = 1
    /\ \A b \in DOMAIN s.vd :
          /\ \A j \in 1..Len(s.vd[b].list) :
                LET pos == SlotPos(s, s.vd[b].list[j].it)
                IN  /\ pos # 0
                    /\ Lock(s, s.stack_list[pos].wp) = b
          /\ \A j1, j2 \in 1..Len(s.vd[b].list) :
                j1 < j2 => SlotPos(s, s.vd[b].list[j1].it)
                               < SlotPos(s, s.vd[b].list[j2].it)
    /\ Len(s.stack_list) > 0 =>
          LET b == s.stack_list[Len(s.stack_list)].wp
          IN  s.vd[b].list[Len(s.vd[b].list)].it
                  = s.stack_list[Len(s.stack_list)].id

\* The deep copy c of s has, slot by slot, the key and the value of s.
SameSlots(s, c) ==
    /\ Len(c.stack_list) = Len(s.stack_list)
    /\ \A i \in 1..Len(s.stack_list) :
          /\ c.vd[c.stack_list[i].wp].it = s.vd[s.stack_list[i].wp].it
          /\ SlotValue(c, i) = SlotValue(s, i)

\* C24: in the stack_data of every stack, and in the one a push (returning
\* or throwing at any step), a pop(), a pop(k), a clear() or a deep copy
\* makes of it, the slots of stack_list and the elements of the buckets
\* are in one-to-one correspondence, each element's iterator is a list node
\* whose weak_ptr locks to the element's own bucket, and the elements of
\* each bucket are in the order of their slots in stack_list; the deep copy
\* has in every slot the key and the value the source has there.
C24_CrossReferences ==
    \A h \in Handles :
        Usable(h) =>
            /\ Consistent(get_data(h))
            /\ \A s \in Made(get_data(h)) : Consistent(s)
            /\ SameSlots(get_data(h), sd_copy(get_data(h), FALSE).sd)

\* Three entries, the key of the first and the last the same, with
\* different values: the bucket of that key has two elements in the order of
\* their slots, pop(k) of the other key takes the slot in the middle, and the
\* deep copy has the two values in their slots.
C24_Witness ==
    \E h \in Handles :
        /\ Usable(h)
        /\ sd_size(get_data(h)) = 3
        /\ hist[h][1][1] = 1 /\ hist[h][2][1] = 2 /\ hist[h][3][1] = 1
        /\ hist[h][1][2] # hist[h][3][2]
        /\ Len(get_data(h).vd[get_data(h).key_map[1]].list) = 2
        /\ SlotValue(sd_copy(get_data(h), FALSE).sd, 1) = hist[h][1][2]
        /\ SlotValue(sd_copy(get_data(h), FALSE).sd, 3) = hist[h][3][2]
        /\ Consistent(sd_pop_key(get_data(h), 2).sd)
        /\ sd_size(sd_pop_key(get_data(h), 2).sd) = 2

===========================================================================
